---- MODULE Spec2Model ----
(***************************************************************************)
(* Credential rotation and bounded retry of src/services/geminiService.ts  *)
(* (getAvailableKeys, getAIClient, rotateKey, performAITask) and the live  *)
(* voice session of src/components/LiveVoiceSession.tsx.                   *)
(*                                                                         *)
(* A JavaScript string is a sequence of one-character strings, so that     *)
(* split, trim, toLowerCase and includes are computed, not assumed.        *)
(***************************************************************************)
EXTENDS Integers, Sequences, FiniteSets, TLC

\* ------------------------------------------------------------------ bounds
\* Largest number of credentials in a generated configuration string.
MaxPool == 4
\* Most runs of startSession followed for one opened live session.
MaxSessions == 4
\* Most renders of App, while the live session is open, that change its props.
MaxPropsChanges == 1
\* Only the latest MaxAnswering runs of startSession still get answers from
\* the microphone prompt and the provider; older ones stay silent.
MaxAnswering == 2

\* ----------------------------------------------------------------- strings
\* The JavaScript value undefined, where a string may stand.
Undefined == <<"<undefined>">>

UpperChars == <<"A","B","C","D","E","F","G","H","I","J","K","L","M","N","O","P","Q","R","S","T","U","V","W","X","Y","Z">>
LowerChars == <<"a","b","c","d","e","f","g","h","i","j","k","l","m","n","o","p","q","r","s","t","u","v","w","x","y","z">>

\* String.prototype.toLowerCase, one character.
LowerChar(c) ==
  IF \E i \in 1..Len(UpperChars) : UpperChars[i] = c
    THEN LowerChars[CHOOSE i \in 1..Len(UpperChars) : UpperChars[i] = c]
    ELSE c

\* String.prototype.toLowerCase.
toLowerCase(s) == [i \in 1..Len(s) |-> LowerChar(s[i])]

\* String.prototype.includes.
includes(s, sub) ==
  \E i \in 0..(Len(s) - Len(sub)) : SubSeq(s, i + 1, i + Len(sub)) = sub

IsSpace(c) == c \in {" ", "\t", "\n"}

RECURSIVE TrimStart(_)
TrimStart(s) == IF s # <<>> /\ IsSpace(Head(s)) THEN TrimStart(Tail(s)) ELSE s

RECURSIVE TrimEnd(_)
TrimEnd(s) ==
  IF s # <<>> /\ IsSpace(s[Len(s)]) THEN TrimEnd(SubSeq(s, 1, Len(s) - 1)) ELSE s

\* String.prototype.trim.
trim(s) == TrimEnd(TrimStart(s))

\* String.prototype.split on a one-character separator: "" splits to [""].
RECURSIVE split(_, _)
split(s, sep) ==
  IF \E i \in 1..Len(s) : s[i] = sep
    THEN LET i == CHOOSE i \in 1..Len(s) : s[i] = sep /\ \A j \in 1..(i - 1) : s[j] # sep
         IN  <<SubSeq(s, 1, i - 1)>> \o split(SubSeq(s, i + 1, Len(s)), sep)
    ELSE <<s>>

NonEmpty(k) == Len(k) > 0

\* ----------------------------------------------------------- configuration
\* The credential "k<i>".
Key(i) == <<"k", ToString(i)>>

\* The configuration "k1,k2,...,kn".
RECURSIVE ConfigOf(_)
ConfigOf(n) ==
  IF n = 0 THEN <<>>
  ELSE IF n = 1 THEN Key(1)
  ELSE ConfigOf(n - 1) \o <<",">> \o Key(n)

\* Values of process.env.API_KEY: unset, "", blank segments only, padded and
\* empty segments, and "k1,...,kn" for every n up to MaxPool.
Configs ==
  {ConfigOf(n) : n \in 0..MaxPool}
    \cup {Undefined, <<" ", ",", " ">>, <<" ","k","1"," ",",",",","k","2">>}

\* getAvailableKeys (mutant): splits and trims but keeps the empty segments.
getAvailableKeysKeepEmpty(apiKey) ==
  LET rawKeys == IF apiKey = Undefined \/ apiKey = <<>> THEN <<>> ELSE apiKey
      parts   == split(rawKeys, ",")
  IN  [i \in 1..Len(parts) |-> trim(parts[i])]

\* getAvailableKeys: rawKeys.split(',').map(trim).filter(length > 0).
getAvailableKeys(apiKey) ==
  LET rawKeys == IF apiKey = Undefined \/ apiKey = <<>> THEN <<>> ELSE apiKey
      parts   == split(rawKeys, ",")
      trimmed == [i \in 1..Len(parts) |-> trim(parts[i])]
  IN  SelectSeq(trimmed, NonEmpty)

\* getAIClient (mutant): always the first credential of the pool.
activeKeyFirst(apiKey, idx) ==
  LET keys == getAvailableKeys(apiKey)
  IN  IF Len(keys) >= 1 THEN keys[1] ELSE apiKey

\* keys[currentKeyIndex] || process.env.API_KEY  (0-based index).
activeKey(apiKey, idx) ==
  LET keys == getAvailableKeys(apiKey)
  IN  IF idx + 1 \in 1..Len(keys) THEN keys[idx + 1] ELSE apiKey

\* rotateKey (mutant): advances without the wraparound.
rotatedIndexNoWrap(apiKey, idx) ==
  LET keys == getAvailableKeys(apiKey)
  IN  IF Len(keys) > 1 THEN idx + 1 ELSE idx

\* rotateKey (mutant): rotates a pool of one as well, without a modulus.
rotatedIndexAlways(apiKey, idx) ==
  LET keys == getAvailableKeys(apiKey)
  IN  IF Len(keys) > 1 THEN (idx + 1) % Len(keys) ELSE idx + 1

\* rotateKey (mutant): the guard reads keys.length > 2.
rotatedIndexGuardTwo(apiKey, idx) ==
  LET keys == getAvailableKeys(apiKey)
  IN  IF Len(keys) > 2 THEN (idx + 1) % Len(keys) ELSE idx

\* rotateKey: the value of currentKeyIndex after the call.
rotatedIndex(apiKey, idx) ==
  LET keys == getAvailableKeys(apiKey)
  IN  IF Len(keys) > 1 THEN (idx + 1) % Len(keys) ELSE idx

\* ---------------------------------------------------------- error messages
Msg429RateLimit == <<"4","2","9"," ","r","a","t","e"," ","l","i","m","i","t">>
MsgQuotaExceeded == <<"q","u","o","t","a"," ","e","x","c","e","e","d","e","d">>
MsgQUOTA == <<"Q","U","O","T","A">>
MsgRateLimit == <<"R","a","t","e"," ","L","i","m","i","t">>
MsgHttp429 == <<"H","T","T","P"," ","4","2","9">>
MsgBadRequest == <<"b","a","d"," ","r","e","q","u","e","s","t">>

\* Messages the provider's error may carry that signal quota or rate limiting.
QuotaMessages == {Msg429RateLimit, MsgQuotaExceeded, MsgQUOTA, MsgRateLimit, MsgHttp429}
\* Other errors: a malformed request, an empty message, no message at all.
OtherMessages == {MsgBadRequest, <<>>, Undefined}
ErrorMessages == QuotaMessages \cup OtherMessages

DefaultMessage == <<"U","n","a","b","l","e"," ","t","o"," ","c","o","m","p","l","e","t","e"," ","r","e","q","u","e","s","t",".">>
ExhaustedMessage == <<"A","l","l"," ","A","P","I"," ","k","e","y","s"," ","h","a","v","e"," ","r","e","a","c","h","e","d"," ","t","h","e","i","r"," ","q","u","o","t","a"," ","l","i","m","i","t","s",".">>

\* error.message?.toLowerCase() || ""
errorMsg(message) == IF message = Undefined THEN <<>> ELSE toLowerCase(message)

\* isQuotaError (mutant): matches the tokens without lower-casing the message.
isQuotaErrorCaseSensitive(message) ==
  LET m == IF message = Undefined THEN <<>> ELSE message
  IN  includes(m, <<"4","2","9">>) \/ includes(m, <<"q","u","o","t","a">>)
        \/ includes(m, <<"l","i","m","i","t">>)

\* isQuotaError (mutant): every error is treated as a quota error.
isQuotaErrorAny(message) == TRUE

\* isQuotaError: includes('429') || includes('quota') || includes('limit').
isQuotaError(message) ==
  LET m == errorMsg(message)
  IN  includes(m, <<"4","2","9">>) \/ includes(m, <<"q","u","o","t","a">>)
        \/ includes(m, <<"l","i","m","i","t">>)

\* maxAttempts (mutant): the pool size alone, without the floor of 3.
maxAttemptsPoolOnly(apiKey) == Len(getAvailableKeys(apiKey))

\* maxAttempts (mutant): one more than Math.max gives.
maxAttemptsPlusOne(apiKey) ==
  LET n == Len(getAvailableKeys(apiKey)) IN (IF n > 3 THEN n ELSE 3) + 1

\* Math.max(keys.length, 3)
maxAttemptsOf(apiKey) ==
  LET n == Len(getAvailableKeys(apiKey)) IN IF n > 3 THEN n ELSE 3

\* The retry guard (mutant): retries on the last allowed attempt as well.
shouldRetryNoLast(isQuota, att, maxAtt) == isQuota /\ att < maxAtt

\* The retry guard (mutant): retries whatever the class of the error.
shouldRetryAnyError(isQuota, att, maxAtt) == att < maxAtt - 1

\* The retry guard (mutant): never retries.
shouldRetryNever(isQuota, att, maxAtt) == FALSE

\* isQuotaError && attempts < maxAttempts - 1
shouldRetry(isQuota, att, maxAtt) == isQuota /\ att < maxAtt - 1

\* error.message || "Unable to complete request." (mutant: always the default).
thrownMessageDefault(message) == DefaultMessage

\* error.message || "Unable to complete request."
thrownMessage(message) ==
  IF message = Undefined \/ message = <<>> THEN DefaultMessage ELSE message

\* The credential of a retry's client (mutant): the one rotateKey returned.
retryKeyReturned(activeNow, returned) == returned

\* The credential of a retry's client: getAIClient() reads the active one
\* after sleep(1000); what rotateKey() returned is not kept.
retryKey(activeNow, returned) == activeNow

\* ------------------------------------------------------------------- state
\* The callers of performAITask: runAiTask (App) and handleSend (AIAssistant).
Tasks == {"runAiTask", "handleSend"}

VARIABLES
  API_KEY,          \* process.env.API_KEY, fixed for the life of the process
  currentKeyIndex,  \* the module-level active index
  pc,               \* per call: idle, awaiting, sleeping, returned, failed
  attempts,         \* per call: the local attempts
  maxAttempts,      \* per call: the local maxAttempts
  clientKey,        \* per call: the apiKey of the client of the request in flight
  clientIndex,      \* per call: currentKeyIndex when that client was built
  outcome,          \* per call: what the call returned or threw
  hist,             \* per call: the requests answered so far (key, index, class)
  requests,         \* per call: provider requests issued
  rotations,        \* per call: calls of rotateKey made
  lastError,        \* per call: the message of the last provider error
  returnedKey,      \* per call: what its latest rotateKey() returned (unused)
  rotLog,           \* currentKeyIndex after each of the latest rotateKey calls
  mounted,            \* LiveVoiceSession is mounted (isLiveOpen, rendered)
  everMounted,        \* the live session has been opened
  closeRequested,     \* the onClose prop has been invoked
  isActive,           \* useState(false)
  isConnecting,       \* useState(true)
  connectionAttempts, \* useState(0)
  audioContextRef,    \* the 16 kHz context: null, open or closed
  outAudioContextRef, \* the 24 kHz context: null, open or closed
  sessionRef,         \* sessionRef.current: 0 (null) or the run that assigned it
  sessions,           \* one record per run of startSession, in order
  propsChanges,       \* renders of App that handed the component new props
  currentTime,        \* outAudioContextRef.current.currentTime, in ticks
  nextStartTimeRef,   \* nextStartTimeRef.current
  sourcesRef,         \* sourcesRef.current: the sources held, by number
  sources,            \* every AudioBufferSourceNode started, in creation order
  interruptions,      \* interruption messages handled so far
  reactions,          \* frames of the then-callbacks registered on sessionPromise
  captured,           \* frames built by onaudioprocess, in capture order
  sent,               \* frames passed to session.sendRealtimeInput, in order
  reqAction,          \* the action argument of a performAITask call
  reqLang,            \* its userLang argument
  reqAttempt,         \* its attempts
  request,            \* what its try block passes to generateContent
  noteUpdated,        \* runAiTask, as called last, has called handleUpdateNote
  apiError,           \* App's apiError state; <<>> is null
  keys                \* what the latest call of getAvailableKeys returned, if any

taskVars == <<pc, attempts, maxAttempts, clientKey, clientIndex, outcome, hist, requests,
              rotations, lastError, returnedKey>>
liveVars == <<mounted, everMounted, closeRequested, isActive, isConnecting,
              connectionAttempts, audioContextRef, outAudioContextRef, sessionRef,
              sessions, propsChanges>>
audioVars == <<currentTime, nextStartTimeRef, sourcesRef, sources, interruptions>>
captureVars == <<reactions, captured, sent>>
paramVars == <<reqAction, reqLang, reqAttempt, request>>
poolVars == <<keys>>
otherVars == <<audioVars, captureVars, paramVars, poolVars>>
noteVars == <<noteUpdated, apiError>>
vars == <<API_KEY, currentKeyIndex, taskVars, rotLog, liveVars, otherVars, noteVars>>

NoOutcome == [kind |-> "none", text |-> <<>>, grounding |-> <<>>, message |-> <<>>]

\* The latest Len(keys) + 1 values of the index, the newest last.
Logged(log, apiKey, idx) ==
  LET w == Len(getAvailableKeys(apiKey)) + 1
      l == Append(log, idx)
  IN  IF Len(l) > w THEN SubSeq(l, Len(l) - w + 1, Len(l)) ELSE l

\* The module is loaded: currentKeyIndex = 0.
InitKeys ==
  /\ API_KEY \in Configs
  /\ currentKeyIndex = 0
  /\ rotLog = <<0>>

\* No call of performAITask has been made.
InitTasks ==
  /\ pc = [t \in Tasks |-> "idle"]
  /\ attempts = [t \in Tasks |-> 0]
  /\ maxAttempts = [t \in Tasks |-> 0]
  /\ clientKey = [t \in Tasks |-> Undefined]
  /\ clientIndex = [t \in Tasks |-> 0]
  /\ outcome = [t \in Tasks |-> NoOutcome]
  /\ hist = [t \in Tasks |-> <<>>]
  /\ requests = [t \in Tasks |-> 0]
  /\ rotations = [t \in Tasks |-> 0]
  /\ lastError = [t \in Tasks |-> Undefined]
  /\ returnedKey = [t \in Tasks |-> Undefined]

\* LiveVoiceSession is not rendered; its state and refs as useState and
\* useRef create them.
InitComponent ==
  /\ mounted = FALSE
  /\ everMounted = FALSE
  /\ closeRequested = FALSE
  /\ isActive = FALSE
  /\ isConnecting = TRUE
  /\ connectionAttempts = 0
  /\ audioContextRef = "null"
  /\ outAudioContextRef = "null"
  /\ sessionRef = 0
  /\ sessions = <<>>
  /\ propsChanges = 0

\* nextStartTimeRef = useRef(0), sourcesRef = useRef(new Set()).
InitPlayback ==
  /\ currentTime = 0
  /\ nextStartTimeRef = 0
  /\ sourcesRef = {}
  /\ sources = <<>>
  /\ interruptions = 0

\* No frame has been captured.
InitCapture ==
  /\ reactions = <<>>
  /\ captured = <<>>
  /\ sent = <<>>

\* No call is in progress ("none") and no request has been built.
InitRequest ==
  /\ reqAction = "none"
  /\ reqLang = "en"
  /\ reqAttempt = 0
  /\ request = <<>>

\* getAvailableKeys has not been called.
InitPool == keys = <<>>

\* App is rendered: apiError is useState(null), the note is as the user left it.
InitNote ==
  /\ noteUpdated = FALSE
  /\ apiError = <<>>

Init ==
  /\ InitKeys /\ InitTasks /\ InitComponent
  /\ InitPlayback /\ InitCapture /\ InitRequest /\ InitNote /\ InitPool

\* ----------------------------------------------------------- performAITask
\* The call: keys, maxAttempts, attempts = 0, the loop test, getAIClient and
\* generateContent up to its await. runAiTask calls setApiError(null) first.
Call(t) ==
  /\ pc[t] = "idle"
  /\ IF t = "runAiTask"
       THEN noteUpdated' = FALSE /\ apiError' = <<>>
       ELSE UNCHANGED noteVars
  /\ maxAttempts' = [maxAttempts EXCEPT ![t] = maxAttemptsOf(API_KEY)]
  /\ attempts' = [attempts EXCEPT ![t] = 0]
  /\ IF 0 < maxAttemptsOf(API_KEY)
       THEN /\ pc' = [pc EXCEPT ![t] = "awaiting"]
            /\ clientKey' = [clientKey EXCEPT ![t] = activeKey(API_KEY, currentKeyIndex)]
            /\ clientIndex' = [clientIndex EXCEPT ![t] = currentKeyIndex]
            /\ requests' = [requests EXCEPT ![t] = 1]
            /\ outcome' = [outcome EXCEPT ![t] = NoOutcome]
       ELSE /\ pc' = [pc EXCEPT ![t] = "failed"]
            /\ clientKey' = [clientKey EXCEPT ![t] = Undefined]
            /\ UNCHANGED clientIndex
            /\ requests' = [requests EXCEPT ![t] = 0]
            /\ outcome' = [outcome EXCEPT ![t] =
                 [NoOutcome EXCEPT !.kind = "error", !.message = ExhaustedMessage]]
  /\ hist' = [hist EXCEPT ![t] = <<>>]
  /\ rotations' = [rotations EXCEPT ![t] = 0]
  /\ lastError' = [lastError EXCEPT ![t] = Undefined]
  /\ returnedKey' = [returnedKey EXCEPT ![t] = Undefined]
  /\ UNCHANGED <<API_KEY, otherVars, currentKeyIndex, rotLog, liveVars>>

\* What response.text and ...groundingChunks may be.
ResponseTexts == {Undefined, <<>>, <<"o","k">>}
ResponseGroundings == {Undefined, <<>>, <<"g">>}

\* The value returned (mutant): response.text is passed on as it is.
resultOfRawText(text, chunks) ==
  [kind |-> "result", text |-> text,
   grounding |-> IF chunks = Undefined THEN <<>> ELSE chunks, message |-> <<>>]

\* {text: response.text || "", grounding: ...groundingChunks || []}
resultOf(text, chunks) ==
  [kind |-> "result",
   text |-> IF text = Undefined THEN <<>> ELSE text,
   grounding |-> IF chunks = Undefined THEN <<>> ELSE chunks,
   message |-> <<>>]

\* generateContent resolves with one of the given texts and groundings:
\* return {text: response.text || "", grounding: ...groundingChunks || []}.
RespondOkWith(t, texts, groundings) ==
  /\ pc[t] = "awaiting"
  /\ \E text \in texts, chunks \in groundings :
       outcome' = [outcome EXCEPT ![t] = resultOf(text, chunks)]
  /\ pc' = [pc EXCEPT ![t] = "returned"]
  /\ hist' = [hist EXCEPT ![t] =
       Append(@, [key |-> clientKey[t], idx |-> clientIndex[t], cls |-> "ok"])]
  /\ UNCHANGED <<API_KEY, noteVars, otherVars, currentKeyIndex, attempts, maxAttempts, clientKey, clientIndex,
                 requests, rotations, lastError, returnedKey, rotLog, liveVars>>

\* generateContent resolves.
RespondOk(t) == RespondOkWith(t, ResponseTexts, ResponseGroundings)

\* generateContent rejects with an error carrying one of the given messages:
\* the catch block, up to the await of sleep(1000) or to the throw.
RespondErrorWith(t, messages) ==
  /\ pc[t] = "awaiting"
  /\ \E message \in messages :
       /\ hist' = [hist EXCEPT ![t] =
            Append(@, [key |-> clientKey[t], idx |-> clientIndex[t],
                       cls |-> IF message \in QuotaMessages THEN "quota" ELSE "other"])]
       /\ lastError' = [lastError EXCEPT ![t] = message]
       /\ IF shouldRetry(isQuotaError(message), attempts[t], maxAttempts[t])
            THEN /\ currentKeyIndex' = rotatedIndex(API_KEY, currentKeyIndex)
                 /\ rotLog' = Logged(rotLog, API_KEY, rotatedIndex(API_KEY, currentKeyIndex))
                 /\ returnedKey' = [returnedKey EXCEPT ![t] =
                      activeKey(API_KEY, rotatedIndex(API_KEY, currentKeyIndex))]
                 /\ rotations' = [rotations EXCEPT ![t] = @ + 1]
                 /\ attempts' = [attempts EXCEPT ![t] = @ + 1]
                 /\ pc' = [pc EXCEPT ![t] = "sleeping"]
                 /\ UNCHANGED outcome
            ELSE /\ pc' = [pc EXCEPT ![t] = "failed"]
                 /\ outcome' = [outcome EXCEPT ![t] =
                      [NoOutcome EXCEPT !.kind = "error", !.message = thrownMessage(message)]]
                 /\ UNCHANGED <<currentKeyIndex, rotLog, rotations, attempts, returnedKey>>
  /\ UNCHANGED <<API_KEY, noteVars, otherVars, maxAttempts, clientKey, clientIndex, requests, liveVars>>

\* generateContent rejects.
RespondError(t) == RespondErrorWith(t, ErrorMessages)

\* sleep(1000) resolves: continue, the loop test, then the next attempt's
\* getAIClient and generateContent, or the throw after the loop.
Wake(t) ==
  /\ pc[t] = "sleeping"
  /\ IF attempts[t] < maxAttempts[t]
       THEN /\ pc' = [pc EXCEPT ![t] = "awaiting"]
            /\ clientKey' = [clientKey EXCEPT ![t] =
                 retryKey(activeKey(API_KEY, currentKeyIndex), returnedKey[t])]
            /\ clientIndex' = [clientIndex EXCEPT ![t] = currentKeyIndex]
            /\ requests' = [requests EXCEPT ![t] = @ + 1]
            /\ UNCHANGED outcome
       ELSE /\ pc' = [pc EXCEPT ![t] = "failed"]
            /\ outcome' = [outcome EXCEPT ![t] =
                 [NoOutcome EXCEPT !.kind = "error", !.message = ExhaustedMessage]]
            /\ UNCHANGED <<clientKey, clientIndex, requests>>
  /\ UNCHANGED <<API_KEY, noteVars, otherVars, currentKeyIndex, attempts, maxAttempts, hist,
                 rotations, lastError, returnedKey, rotLog, liveVars>>

\* The caller consumes the outcome and may call again. runAiTask passes the
\* new content to handleUpdateNote when the call returned and the message to
\* setApiError when it threw; handleSend appends a chat message either way.
Settle(t) ==
  /\ pc[t] \in {"returned", "failed"}
  /\ pc' = [pc EXCEPT ![t] = "idle"]
  /\ IF t = "runAiTask"
       THEN IF pc[t] = "returned"
              THEN noteUpdated' = TRUE /\ UNCHANGED apiError
              ELSE apiError' = outcome[t].message /\ UNCHANGED noteUpdated
       ELSE UNCHANGED noteVars
  /\ UNCHANGED <<API_KEY, otherVars, currentKeyIndex, attempts, maxAttempts, clientKey,
                 clientIndex, outcome, hist, requests, rotations, lastError, returnedKey,
                 rotLog, liveVars>>

\* One caller at a time: runAiTask, guarded by isAiProcessing.
Next ==
  \/ Call("runAiTask")
  \/ RespondOk("runAiTask")
  \/ RespondError("runAiTask")
  \/ Wake("runAiTask")
  \/ Settle("runAiTask")

Spec == Init /\ [][Next]_vars

\* Pools of no, two and four credentials: the budget is 3, 3 and 4 attempts.
InitFair == Init /\ API_KEY \in {ConfigOf(0), ConfigOf(2), ConfigOf(4)}

\* Every provider request is answered, every sleep(1000) ends, and the
\* caller's continuation runs.
SpecFair ==
  /\ InitFair /\ [][Next]_vars
  /\ WF_vars(RespondOk("runAiTask") \/ RespondError("runAiTask"))
  /\ WF_vars(Wake("runAiTask"))
  /\ WF_vars(Settle("runAiTask"))

\* Both callers at once: runAiTask is guarded by isAiProcessing and handleSend
\* by isTyping, each by its own flag, so one call of each may be in flight.
\* The provider's answers are one result, one quota-class error and one
\* other error.
Next2 ==
  \/ \E t \in Tasks : Call(t)
  \/ \E t \in Tasks : RespondOkWith(t, {<<"o","k">>}, {<<>>})
  \/ \E t \in Tasks : RespondErrorWith(t, {Msg429RateLimit, MsgBadRequest})
  \/ \E t \in Tasks : Wake(t)
  \/ \E t \in Tasks : Settle(t)

\* Pools of no, one, two and three credentials.
Configs2 == {ConfigOf(0), ConfigOf(1), ConfigOf(2), ConfigOf(3)}

Init2 == Init /\ API_KEY \in Configs2

Spec2 == Init2 /\ [][Next2]_vars

\* ------------------------------------------------------ LiveVoiceSession
\* onerror (mutant): retries whatever the attempt counter says.
onerrorRetriesAlways(closureIsConnecting, closureAttempts) == closureIsConnecting

\* onerror: isConnecting && connectionAttempts < 2, read from the closure.
onerrorRetries(closureIsConnecting, closureAttempts) ==
  closureIsConnecting /\ closureAttempts < 2

\* catch: connectionAttempts < 2, read from the closure.
catchRetries(closureAttempts) == closureAttempts < 2

\* What one run of the effect's cleanup leaves of a context: close() is
\* called on it, the ref keeps pointing to it.
closedContext(ref) == IF ref = "null" THEN "null" ELSE "closed"

\* if (!ref.current) ref.current = new AudioContext(...)
ensuredContext(ref) == IF ref = "null" THEN "open" ELSE ref

\* The cleanup's sessionRef.current.close(): the socket closes and its close
\* event is due.
cleanedSessions ==
  IF sessionRef # 0 /\ sessions[sessionRef].ws = "open"
    THEN [sessions EXCEPT ![sessionRef].ws = "closed",
                          ![sessionRef].closeEvt = sessions[sessionRef].isActive]
    ELSE sessions

\* The runs of startSession that still get answers.
Answering == {a \in 1..Len(sessions) : a > Len(sessions) - MaxAnswering}

\* Configurations of the live session's runs: no credential, two credentials.
LiveConfigs == {ConfigOf(0), ConfigOf(2)}

\* startSession up to its first await: the closure of the render that runs
\* the effect, getAIClient(), getUserMedia() called.
newSession ==
  [c            |-> connectionAttempts,
   isConnecting |-> isConnecting,
   isActive     |-> isActive,
   key          |-> activeKey(API_KEY, currentKeyIndex),
   idx          |-> currentKeyIndex,
   phase        |-> "gum",
   stream       |-> "none",
   ws           |-> "none",
   opened       |-> FALSE,
   capture      |-> FALSE,
   failed       |-> FALSE,
   closeEvt     |-> FALSE]

\* rotateKey(); setConnectionAttempts(prev => prev + 1)  or  onClose().
\* A state update of an unmounted component is dropped.
RetryOrClose(retry) ==
  IF retry
    THEN /\ currentKeyIndex' = rotatedIndex(API_KEY, currentKeyIndex)
         /\ rotLog' = Logged(rotLog, API_KEY, rotatedIndex(API_KEY, currentKeyIndex))
         /\ connectionAttempts' = IF mounted THEN connectionAttempts + 1 ELSE connectionAttempts
         /\ UNCHANGED closeRequested
    ELSE /\ closeRequested' = TRUE
         /\ UNCHANGED <<currentKeyIndex, rotLog, connectionAttempts>>

\* onOpenLive: App renders LiveVoiceSession; the effect runs startSession.
OpenLive ==
  /\ ~everMounted
  /\ mounted' = TRUE
  /\ everMounted' = TRUE
  /\ sessions' = <<newSession>>
  /\ UNCHANGED <<API_KEY, noteVars, otherVars, currentKeyIndex, taskVars, rotLog, closeRequested, isActive,
                 isConnecting, connectionAttempts, audioContextRef, outAudioContextRef,
                 sessionRef, propsChanges>>

\* The effect runs again: the cleanup of the previous run, then startSession
\* with the closure of the new render.
RerunEffect ==
  /\ sessions' = Append(cleanedSessions, newSession)
  /\ audioContextRef' = closedContext(audioContextRef)
  /\ outAudioContextRef' = closedContext(outAudioContextRef)
  /\ UNCHANGED <<API_KEY, noteVars, otherVars, currentKeyIndex, taskVars, rotLog, mounted, everMounted,
                 closeRequested, isActive, isConnecting, connectionAttempts, sessionRef>>

\* A render after setConnectionAttempts: the dependency connectionAttempts
\* differs from the one the running effect was created with.
StateRerender ==
  /\ mounted /\ ~closeRequested
  /\ Len(sessions) < MaxSessions
  /\ connectionAttempts # sessions[Len(sessions)].c
  /\ RerunEffect
  /\ UNCHANGED propsChanges

\* A render of App while the session is open: onClose is a new function
\* (and noteContext may differ), so the dependencies differ.
PropsRerender ==
  /\ mounted /\ ~closeRequested
  /\ Len(sessions) < MaxSessions
  /\ propsChanges < MaxPropsChanges
  /\ propsChanges' = propsChanges + 1
  /\ RerunEffect

\* getUserMedia resolves: the stream is held, the contexts are created if the
\* refs are empty, ai.live.connect is called and its promise awaited.
GumOk(a) ==
  /\ sessions[a].phase = "gum"
  /\ sessions' = [sessions EXCEPT ![a].phase = "connect", ![a].stream = "live",
                                  ![a].ws = "connecting"]
  /\ audioContextRef' = ensuredContext(audioContextRef)
  /\ outAudioContextRef' = ensuredContext(outAudioContextRef)
  /\ UNCHANGED <<API_KEY, noteVars, otherVars, currentKeyIndex, taskVars, rotLog, mounted, everMounted,
                 closeRequested, isActive, isConnecting, connectionAttempts, sessionRef,
                 propsChanges>>

\* getUserMedia rejects (or getAIClient threw): the catch block.
GumFail(a) ==
  /\ sessions[a].phase = "gum"
  /\ sessions' = [sessions EXCEPT ![a].phase = "caught", ![a].failed = TRUE]
  /\ RetryOrClose(catchRetries(sessions[a].c))
  /\ UNCHANGED <<API_KEY, noteVars, otherVars, taskVars, mounted, everMounted, isActive, isConnecting,
                 audioContextRef, outAudioContextRef, sessionRef, propsChanges>>

\* The socket opens: the onopen callback. It sets the state and wires the
\* run's stream through a script processor (capture), whatever has happened
\* to the component since the run started.
OnOpen(a) ==
  /\ sessions[a].ws = "connecting"
  /\ sessions' = [sessions EXCEPT ![a].ws = "open", ![a].opened = TRUE,
                                  ![a].capture = TRUE]
  /\ isConnecting' = IF mounted THEN FALSE ELSE isConnecting
  /\ isActive' = IF mounted THEN TRUE ELSE isActive
  /\ UNCHANGED <<API_KEY, noteVars, otherVars, currentKeyIndex, taskVars, rotLog, mounted, everMounted,
                 closeRequested, connectionAttempts, audioContextRef, outAudioContextRef,
                 sessionRef, propsChanges>>

\* The promise of ai.live.connect resolves, after onopen:
\* sessionRef.current = await sessionPromise.
Resolve(a) ==
  /\ sessions[a].phase = "connect"
  /\ sessions[a].opened
  /\ sessions' = [sessions EXCEPT ![a].phase = "established"]
  /\ sessionRef' = a
  /\ UNCHANGED <<API_KEY, noteVars, otherVars, currentKeyIndex, taskVars, rotLog, mounted, everMounted,
                 closeRequested, isActive, isConnecting, connectionAttempts,
                 audioContextRef, outAudioContextRef, propsChanges>>

\* The socket reports an error, while connecting or once open: the onerror
\* callback. The socket is closed by it and its close event is due.
OnError(a) ==
  /\ sessions[a].ws \in {"connecting", "open"}
  /\ sessions' = [sessions EXCEPT ![a].ws = "closed", ![a].failed = TRUE,
                                  ![a].closeEvt = sessions[a].isActive]
  /\ RetryOrClose(onerrorRetries(sessions[a].isConnecting, sessions[a].c))
  /\ UNCHANGED <<API_KEY, noteVars, otherVars, taskVars, mounted, everMounted, isActive, isConnecting,
                 audioContextRef, outAudioContextRef, sessionRef, propsChanges>>

\* The promise of ai.live.connect rejects, the socket never having opened:
\* the catch block. The failure may have been reported to onerror as well.
Reject(a) ==
  /\ sessions[a].phase = "connect"
  /\ ~sessions[a].opened
  /\ sessions' = [sessions EXCEPT ![a].phase = "caught", ![a].ws = "closed",
                                  ![a].failed = TRUE]
  /\ RetryOrClose(catchRetries(sessions[a].c))
  /\ UNCHANGED <<API_KEY, noteVars, otherVars, taskVars, mounted, everMounted, isActive, isConnecting,
                 audioContextRef, outAudioContextRef, sessionRef, propsChanges>>

\* The provider closes an open session; the close event is due.
ProviderClose(a) ==
  /\ sessions[a].ws = "open"
  /\ sessions' = [sessions EXCEPT ![a].ws = "closed",
                                  ![a].closeEvt = sessions[a].isActive]
  /\ UNCHANGED <<API_KEY, noteVars, otherVars, currentKeyIndex, taskVars, rotLog, mounted, everMounted,
                 closeRequested, isActive, isConnecting, connectionAttempts,
                 audioContextRef, outAudioContextRef, sessionRef, propsChanges>>

\* The close event of a socket whose callbacks closed over isActive = true:
\* the onclose callback, if (isActive) onClose(). With isActive = false in
\* the closure the callback does nothing and the event is not followed.
OnCloseEvent(a) ==
  /\ sessions[a].closeEvt
  /\ sessions' = [sessions EXCEPT ![a].closeEvt = FALSE]
  /\ closeRequested' = (closeRequested \/ sessions[a].isActive)
  /\ UNCHANGED <<API_KEY, noteVars, otherVars, currentKeyIndex, taskVars, rotLog, mounted, everMounted,
                 isActive, isConnecting, connectionAttempts, audioContextRef,
                 outAudioContextRef, sessionRef, propsChanges>>

\* The X or the Terminate Session button: onClick={onClose}.
UserClose ==
  /\ mounted /\ ~closeRequested
  /\ closeRequested' = TRUE
  /\ UNCHANGED <<API_KEY, noteVars, otherVars, currentKeyIndex, taskVars, rotLog, mounted, everMounted,
                 isActive, isConnecting, connectionAttempts, audioContextRef,
                 outAudioContextRef, sessionRef, sessions, propsChanges>>

\* App renders with isLiveOpen false: the component is destroyed and the
\* effect's cleanup runs.
Unmount ==
  /\ mounted /\ closeRequested
  /\ mounted' = FALSE
  /\ sessions' = cleanedSessions
  /\ audioContextRef' = closedContext(audioContextRef)
  /\ outAudioContextRef' = closedContext(outAudioContextRef)
  /\ UNCHANGED <<API_KEY, noteVars, otherVars, currentKeyIndex, taskVars, rotLog, everMounted, closeRequested,
                 isActive, isConnecting, connectionAttempts, sessionRef, propsChanges>>

NextLive ==
  \/ OpenLive
  \/ StateRerender
  \/ PropsRerender
  \/ \E a \in Answering : GumOk(a)
  \/ \E a \in Answering : GumFail(a)
  \/ \E a \in Answering : OnOpen(a)
  \/ \E a \in Answering : Resolve(a)
  \/ \E a \in Answering : OnError(a)
  \/ \E a \in Answering : Reject(a)
  \/ \E a \in Answering : ProviderClose(a)
  \/ \E a \in 1..Len(sessions) : OnCloseEvent(a)
  \/ UserClose
  \/ Unmount

\* One live session, opened once, with no performAITask call in flight.
InitLive == Init /\ API_KEY \in LiveConfigs

SpecLive == InitLive /\ [][NextLive]_vars

\* ------------------------------- performAITask and connection retries
\* A runAiTask call and the connection attempts of the live session, sharing
\* currentKeyIndex. The provider answers the call with one result, one
\* quota-class error or one other error; the session's attempts fail before
\* the socket is opened (the microphone is refused) and retry.
NextKeys ==
  \/ Call("runAiTask")
  \/ RespondOkWith("runAiTask", {<<"o","k">>}, {<<>>})
  \/ RespondErrorWith("runAiTask", {MsgQuotaExceeded, MsgBadRequest})
  \/ Wake("runAiTask")
  \/ Settle("runAiTask")
  \/ OpenLive
  \/ StateRerender
  \/ \E a \in Answering : GumFail(a)

SpecKeys == Init /\ [][NextKeys]_vars

\* ------------------- both callers and the connection retries together
\* One call of runAiTask, one of handleSend and the connection attempts of
\* the live session, all sharing currentKeyIndex. The provider answers a
\* request with a result or a quota-class error; the session's attempts fail
\* before the socket is opened (the microphone is refused) and retry.
NextShared ==
  \/ \E t \in Tasks : Call(t)
  \/ \E t \in Tasks : RespondOkWith(t, {<<"o","k">>}, {<<>>})
  \/ \E t \in Tasks : RespondErrorWith(t, {MsgQuotaExceeded})
  \/ \E t \in Tasks : Wake(t)
  \/ OpenLive
  \/ StateRerender
  \/ \E a \in Answering : GumFail(a)

\* Pools of no, one and two credentials.
ConfigsShared == {ConfigOf(0), ConfigOf(1), ConfigOf(2)}

InitShared == Init /\ API_KEY \in ConfigsShared

SpecShared == InitShared /\ [][NextShared]_vars

\* ------------------------------------------- playback of inbound audio
\* The output clock runs up to MaxClock ticks.
MaxClock == 4
\* Most audio chunks received in one session.
MaxChunks == 3
\* Most interruption messages received in one session.
MaxInterruptions == 1
\* Durations of the inbound chunks (audioBuffer.duration), in ticks.
Durations == {1, 2}

\* The start time (mutant): the clock's time, whatever the cursor says.
startTimeNow(cursor, now) == now

\* Math.max(nextStartTimeRef.current, ctx.currentTime)
startTime(cursor, now) == IF cursor > now THEN cursor ELSE now

\* The cursor after scheduling (mutant): it is not advanced.
cursorAfterKept(start, duration) == start

\* nextStartTimeRef.current += audioBuffer.duration
cursorAfter(start, duration) == start + duration

\* The cursor after an interruption (mutant): it is not reset.
cursorOnInterruptKept(cursor) == cursor

\* nextStartTimeRef.current = 0
cursorOnInterrupt(cursor) == 0

\* sourcesRef.current.forEach(s => s.stop()): what stop() leaves of source i
\* of srcs when ref holds it.
stopped(srcs, ref) ==
  [i \in 1..Len(srcs) |->
     IF i \in ref /\ srcs[i].state = "scheduled"
       THEN [srcs[i] EXCEPT !.state = "stopped"] ELSE srcs[i]]

\* The onmessage callback for a message with an audio chunk of duration d
\* (hasAudio), the interrupted flag, or both. The await of decodeAudioData,
\* which has no await of its own, resumes in the microtask checkpoint of the
\* task that delivered the message: nothing runs in between and the clock
\* does not advance.
OnMessage(hasAudio, d, interrupted) ==
  LET play  == hasAudio /\ outAudioContextRef # "null"
      start == startTime(nextStartTimeRef, currentTime)
      src1  == IF play
                 THEN Append(sources, [arrival |-> currentTime, start |-> start,
                                       duration |-> d, epoch |-> interruptions,
                                       state |-> "scheduled"])
                 ELSE sources
      ref1  == IF play THEN sourcesRef \cup {Len(src1)} ELSE sourcesRef
      cur1  == IF play THEN cursorAfter(start, d) ELSE nextStartTimeRef
  IN  /\ hasAudio \/ interrupted
      /\ hasAudio => Len(sources) < MaxChunks
      /\ interrupted => interruptions < MaxInterruptions
      /\ IF interrupted
           THEN /\ sources' = stopped(src1, ref1)
                /\ sourcesRef' = {}
                /\ nextStartTimeRef' = cursorOnInterrupt(cur1)
                /\ interruptions' = interruptions + 1
           ELSE /\ sources' = src1
                /\ sourcesRef' = ref1
                /\ nextStartTimeRef' = cur1
                /\ UNCHANGED interruptions
      /\ UNCHANGED <<API_KEY, noteVars, poolVars, currentKeyIndex, taskVars, rotLog, liveVars, captureVars, paramVars, currentTime>>

\* A source has played to its end: its ended listener runs,
\* sourcesRef.current.delete(source).
Ended(i) ==
  /\ sources[i].state = "scheduled"
  /\ sources[i].start + sources[i].duration <= currentTime
  /\ sources' = [sources EXCEPT ![i].state = "ended"]
  /\ sourcesRef' = sourcesRef \ {i}
  /\ UNCHANGED <<API_KEY, noteVars, poolVars, currentKeyIndex, taskVars, rotLog, liveVars, captureVars, paramVars, currentTime,
                 nextStartTimeRef, interruptions>>

\* The output context renders: its clock advances.
Tick ==
  /\ currentTime < MaxClock
  /\ currentTime' = currentTime + 1
  /\ UNCHANGED <<API_KEY, noteVars, poolVars, currentKeyIndex, taskVars, rotLog, liveVars, captureVars, paramVars,
                 nextStartTimeRef,
                 sourcesRef, sources, interruptions>>

NextAudio ==
  \/ \E hasAudio \in BOOLEAN, d \in Durations, interrupted \in BOOLEAN :
       OnMessage(hasAudio, d, interrupted)
  \/ \E i \in 1..Len(sources) : Ended(i)
  \/ Tick

\* The component once its first run of startSession has established the
\* session: Active, both contexts open, the session in sessionRef.
ActiveComponent ==
  /\ mounted = TRUE
  /\ everMounted = TRUE
  /\ closeRequested = FALSE
  /\ isActive = TRUE
  /\ isConnecting = FALSE
  /\ connectionAttempts = 0
  /\ audioContextRef = "open"
  /\ outAudioContextRef = "open"
  /\ sessionRef = 1
  /\ sessions = <<[c |-> 0, isConnecting |-> TRUE, isActive |-> FALSE,
                   key |-> activeKey(API_KEY, 0), idx |-> 0, phase |-> "established",
                   stream |-> "live", ws |-> "open", opened |-> TRUE,
                   capture |-> TRUE, failed |-> FALSE, closeEvt |-> FALSE]>>
  /\ propsChanges = 0

\* An established session, no audio received yet.
InitAudio ==
  /\ InitKeys /\ API_KEY \in LiveConfigs
  /\ InitTasks
  /\ ActiveComponent
  /\ InitPlayback
  /\ InitCapture
  /\ InitRequest
  /\ InitNote
  /\ InitPool

SpecAudio == InitAudio /\ [][NextAudio]_vars

\* ------------------------------------------- capture of outbound audio
\* Most frames captured in one session.
MaxFrames == 3
\* The samples of a frame, in halves: -1.0, -0.5, 0, 0.5, 1.0. A frame here
\* holds one sample (4096 in the script processor).
Samples == {-2, -1, 0, 1, 2}

\* Storing a number in an Int16Array: modulo 2^16, into -32768..32767.
toInt16(x) == ((x + 32768) % 65536) - 32768

\* int16[i] = inputData[i] * 32768, for the sample h / 2.
int16Of(h) == toInt16(h * 16384)

\* new Uint8Array(int16.buffer): the two bytes of the value, low byte first.
bytesOf(v) == LET u == (v + 65536) % 65536 IN <<u % 256, u \div 256>>

Base64Chars ==
  <<"A","B","C","D","E","F","G","H","I","J","K","L","M","N","O","P","Q","R","S","T","U","V","W","X","Y","Z",
    "a","b","c","d","e","f","g","h","i","j","k","l","m","n","o","p","q","r","s","t","u","v","w","x","y","z",
    "0","1","2","3","4","5","6","7","8","9","+","/">>

\* encodeAudio: String.fromCharCode of every byte, then btoa.
RECURSIVE encodeAudio(_)
encodeAudio(bytes) ==
  IF Len(bytes) = 0 THEN <<>>
  ELSE IF Len(bytes) = 1
    THEN <<Base64Chars[(bytes[1] \div 4) + 1], Base64Chars[(bytes[1] % 4) * 16 + 1], "=", "=">>
  ELSE IF Len(bytes) = 2
    THEN <<Base64Chars[(bytes[1] \div 4) + 1],
           Base64Chars[(bytes[1] % 4) * 16 + (bytes[2] \div 16) + 1],
           Base64Chars[(bytes[2] % 16) * 4 + 1], "=">>
  ELSE <<Base64Chars[(bytes[1] \div 4) + 1],
         Base64Chars[(bytes[1] % 4) * 16 + (bytes[2] \div 16) + 1],
         Base64Chars[(bytes[2] % 16) * 4 + (bytes[3] \div 64) + 1],
         Base64Chars[(bytes[3] % 64) + 1]>>
         \o encodeAudio(SubSeq(bytes, 4, Len(bytes)))

\* The media.data of the frame built from one sample.
frameOf(h) == encodeAudio(bytesOf(int16Of(h)))

\* sessionPromise.then(...) (mutant): the new callback runs before the ones
\* registered earlier.
thenRegisteredFirst(queue, frame) == <<frame>> \o queue

\* sessionPromise.then(session => session.sendRealtimeInput(frame)): the
\* promise runs its callbacks in the order of their registration.
thenRegistered(queue, frame) == Append(queue, frame)

\* The script processor delivers a buffer: onaudioprocess builds the frame
\* and registers its sending on sessionPromise.
AudioProcess(h) ==
  /\ Len(captured) < MaxFrames
  /\ \E a \in 1..Len(sessions) : sessions[a].capture
  /\ audioContextRef = "open"
  /\ captured' = Append(captured, frameOf(h))
  /\ reactions' = thenRegistered(reactions, frameOf(h))
  /\ UNCHANGED <<API_KEY, noteVars, poolVars, currentKeyIndex, taskVars, rotLog, liveVars, audioVars, paramVars, sent>>

\* sessionPromise is fulfilled and a registered callback runs:
\* session.sendRealtimeInput(frame).
RunReaction ==
  /\ reactions # <<>>
  /\ \E a \in 1..Len(sessions) : sessions[a].capture /\ sessions[a].phase = "established"
  /\ sent' = Append(sent, Head(reactions))
  /\ reactions' = Tail(reactions)
  /\ UNCHANGED <<API_KEY, noteVars, poolVars, currentKeyIndex, taskVars, rotLog, liveVars, audioVars, paramVars, captured>>

NextCapture ==
  \/ \E h \in Samples : AudioProcess(h)
  \/ Resolve(1)
  \/ RunReaction

\* The component once the socket of its first run has opened, the promise of
\* ai.live.connect not yet fulfilled.
OpenedComponent ==
  /\ mounted = TRUE
  /\ everMounted = TRUE
  /\ closeRequested = FALSE
  /\ isActive = TRUE
  /\ isConnecting = FALSE
  /\ connectionAttempts = 0
  /\ audioContextRef = "open"
  /\ outAudioContextRef = "open"
  /\ sessionRef = 0
  /\ sessions = <<[c |-> 0, isConnecting |-> TRUE, isActive |-> FALSE,
                   key |-> activeKey(API_KEY, 0), idx |-> 0, phase |-> "connect",
                   stream |-> "live", ws |-> "open", opened |-> TRUE,
                   capture |-> TRUE, failed |-> FALSE, closeEvt |-> FALSE]>>
  /\ propsChanges = 0

\* onopen has wired the capture, no buffer delivered yet.
InitFrames ==
  /\ InitKeys /\ API_KEY \in LiveConfigs
  /\ InitTasks
  /\ OpenedComponent
  /\ InitPlayback
  /\ InitCapture
  /\ InitRequest
  /\ InitNote
  /\ InitPool

SpecCapture == InitFrames /\ [][NextCapture]_vars

\* The capture while the provider may close the session: onaudioprocess and
\* the callbacks registered on sessionPromise are the same, and nothing in
\* onclose or in them disconnects the script processor or tests the socket.
NextForward ==
  \/ \E h \in Samples : AudioProcess(h)
  \/ Resolve(1)
  \/ RunReaction
  \/ ProviderClose(1)

SpecForward == InitFrames /\ [][NextForward]_vars

\* ------------------------------------------- the request of an attempt
AIActions == {"summarize", "improve", "expand", "outline", "think", "search", "fix", "chat"}
Languages == {"en", "bn", "ja", "zh", "ru", "fr", "ko"}

\* languageNames[userLang]
languageNames(l) ==
  CASE l = "en" -> "English" [] l = "bn" -> "Bengali" [] l = "ja" -> "Japanese"
    [] l = "zh" -> "Chinese" [] l = "ru" -> "Russian" [] l = "fr" -> "French"
    [] l = "ko" -> "Korean"

\* action === 'fix'
isCodeAction(action) == action = "fix"

\* modelName (mutant): only think selects the pro model.
modelNameThinkOnly(action) ==
  IF action = "think" THEN "gemini-3-pro-preview" ELSE "gemini-3-flash-preview"

\* (action === 'think' || isCodeAction) ? pro : flash
modelName(action) ==
  IF action = "think" \/ isCodeAction(action)
    THEN "gemini-3-pro-preview" ELSE "gemini-3-flash-preview"

\* action === 'search' ? [{googleSearch: {}}] : undefined; <<>> is undefined.
toolsOf(action) == IF action = "search" THEN <<"googleSearch">> ELSE <<>>

\* config.temperature, in tenths.
temperatureOf(action) == IF action = "fix" \/ action = "think" THEN 1 ELSE 7

\* config.thinkingConfig.thinkingBudget; <<>> when config has no thinkingConfig.
thinkingBudgetOf(action) ==
  IF action = "think" \/ isCodeAction(action) THEN <<32768>> ELSE <<>>

\* The argument of generateContent, with the credential of the client it is
\* called on.
requestOf(action, lang, apiKey, idx) ==
  <<[model           |-> modelName(action),
     temperature     |-> temperatureOf(action),
     tools           |-> toolsOf(action),
     thinkingBudget  |-> thinkingBudgetOf(action),
     langInstruction |-> languageNames(lang),
     fixPrompt       |-> action = "fix",
     credential      |-> activeKey(apiKey, idx)]>>

\* performAITask(action, note, userLang) is called.
NewTask ==
  /\ reqAction = "none"
  /\ reqAction' \in AIActions
  /\ reqLang' \in Languages
  /\ reqAttempt' = 0
  /\ UNCHANGED <<API_KEY, noteVars, poolVars, currentKeyIndex, taskVars, rotLog, liveVars, audioVars,
                 captureVars, request>>

\* The try block of one attempt, up to the call of generateContent.
BuildRequest ==
  /\ reqAction # "none"
  /\ request = <<>>
  /\ reqAttempt < maxAttemptsOf(API_KEY)
  /\ request' = requestOf(reqAction, reqLang, API_KEY, currentKeyIndex)
  /\ UNCHANGED <<API_KEY, noteVars, poolVars, currentKeyIndex, taskVars, rotLog, liveVars, audioVars,
                 captureVars, reqAction, reqLang, reqAttempt>>

\* The request fails with a quota-class error before the last attempt:
\* rotateKey(), attempts++, and the loop goes round.
RetryRequest ==
  /\ request # <<>>
  /\ shouldRetry(TRUE, reqAttempt, maxAttemptsOf(API_KEY))
  /\ currentKeyIndex' = rotatedIndex(API_KEY, currentKeyIndex)
  /\ rotLog' = Logged(rotLog, API_KEY, rotatedIndex(API_KEY, currentKeyIndex))
  /\ reqAttempt' = reqAttempt + 1
  /\ request' = <<>>
  /\ UNCHANGED <<API_KEY, noteVars, poolVars, taskVars, liveVars, audioVars, captureVars, reqAction, reqLang>>

\* The request is answered for good: the call returns or throws.
EndRequest ==
  /\ request # <<>>
  /\ request' = <<>>
  /\ reqAction' = "none"
  /\ UNCHANGED <<API_KEY, noteVars, poolVars, currentKeyIndex, taskVars, rotLog, liveVars, audioVars,
                 captureVars, reqLang, reqAttempt>>

NextParams == NewTask \/ BuildRequest \/ RetryRequest \/ EndRequest

\* Pools of no and of two credentials.
InitParams == Init /\ API_KEY \in LiveConfigs

SpecParams == InitParams /\ [][NextParams]_vars

\* ------------------------------------------------- the credential pool
\* Longest configuration string generated for the parsing of the pool.
MaxConfigLen == 4
\* The characters of those strings: two credential characters, a blank, a
\* tab and the separator.
ConfigChars == {"a", "b", " ", "\t", ","}

\* Every string over ConfigChars up to MaxConfigLen characters, and unset.
ConfigStrings ==
  UNION {[1..n -> ConfigChars] : n \in 0..MaxConfigLen} \cup {Undefined}

\* A call of getAvailableKeys (by getAIClient, rotateKey or performAITask)
\* returns.
GetAvailableKeys ==
  /\ keys' = <<getAvailableKeys(API_KEY)>>
  /\ UNCHANGED <<API_KEY, noteVars, currentKeyIndex, taskVars, rotLog, liveVars, audioVars,
                 captureVars, paramVars>>

NextPool == GetAvailableKeys

InitPoolStrings ==
  /\ API_KEY \in ConfigStrings
  /\ currentKeyIndex = 0
  /\ rotLog = <<0>>
  /\ InitTasks /\ InitComponent
  /\ InitPlayback /\ InitCapture /\ InitRequest /\ InitNote /\ InitPool

SpecPool == InitPoolStrings /\ [][NextPool]_vars

\* ------------------------------------------------------------------ claims
\* The pool and the attempt budget as the specification states them.
PoolSize == Len(getAvailableKeys(API_KEY))
Budget == IF PoolSize > 3 THEN PoolSize ELSE 3

\* Every answer so far was a quota-class error.
AllQuota(h) == \A i \in 1..Len(h) : h[i].cls = "quota"
\* Quota-class errors, then one success.
QuotaThenOk(h) ==
  /\ Len(h) >= 1
  /\ h[Len(h)].cls = "ok"
  /\ \A i \in 1..(Len(h) - 1) : h[i].cls = "quota"

\* C1: a call answered by k quota-class errors and then a success returns a
\* result exactly when k < max(poolSize, 3): after k < budget quota errors the
\* call is still running and a success then yields the result; after budget
\* quota errors it has failed, with no result and no further request.
C1_ResultIffWithinBudget ==
  \A t \in Tasks :
    LET h == hist[t] IN
    /\ (AllQuota(h) /\ Len(h) < Budget) =>
         /\ outcome[t].kind = "none"
         /\ Len(h) >= 1 => pc[t] \in {"sleeping", "awaiting"}
    /\ QuotaThenOk(h) => (outcome[t].kind = "result" /\ Len(h) - 1 < Budget)
    /\ (AllQuota(h) /\ Len(h) >= Budget) =>
         /\ outcome[t].kind = "error"
         /\ Len(h) = Budget
         /\ pc[t] \in {"failed", "idle"}
    /\ outcome[t].kind = "result" => QuotaThenOk(h)

\* A pool of four: three quota errors, then the success on the last attempt.
C1_Witness ==
  /\ PoolSize = 4
  /\ QuotaThenOk(hist["runAiTask"])
  /\ Len(hist["runAiTask"]) = 4
  /\ outcome["runAiTask"].kind = "result"

\* C2: a call whose every attempt failed with a quota-class error fails with
\* the message "All API keys have reached their quota limits.".
C2_ExhaustedKind ==
  \A t \in Tasks :
    (outcome[t].kind = "error" /\ AllQuota(hist[t]) /\ Len(hist[t]) = Budget)
      => outcome[t].message = ExhaustedMessage

\* C3: with k < budget quota-class errors and then a success, the call has
\* made exactly k calls of rotateKey and k + 1 provider requests.
C3_RotationsAndRequests ==
  \A t \in Tasks :
    LET h == hist[t] IN
    /\ (AllQuota(h) /\ Len(h) < Budget) =>
         /\ rotations[t] = Len(h)
         /\ pc[t] = "awaiting" => requests[t] = Len(h) + 1
    /\ QuotaThenOk(h) =>
         /\ rotations[t] = Len(h) - 1
         /\ requests[t] = Len(h)
         /\ outcome[t].kind = "result"

\* Two quota errors, two rotations, the third request succeeds.
C3_Witness ==
  /\ QuotaThenOk(hist["runAiTask"])
  /\ Len(hist["runAiTask"]) = 3
  /\ rotations["runAiTask"] = 2
  /\ requests["runAiTask"] = 3
  /\ pc["runAiTask"] = "returned"

\* C4: an error that is not quota-class ends the call on the attempt where it
\* occurs: no rotateKey call, no further request, and the active index is the
\* one the attempt started with.
C4_NonQuotaFailsFast ==
  \A t \in Tasks :
    LET h == hist[t] IN
    (Len(h) >= 1 /\ h[Len(h)].cls = "other") =>
      /\ pc[t] \in {"failed", "idle"}
      /\ outcome[t].kind = "error"
      /\ requests[t] = Len(h)
      /\ rotations[t] = Len(h) - 1
      /\ currentKeyIndex = h[Len(h)].idx

\* An error with no message on the second attempt, after one rotation.
C4_Witness ==
  /\ PoolSize >= 2
  /\ Len(hist["runAiTask"]) = 2
  /\ hist["runAiTask"][2].cls = "other"
  /\ lastError["runAiTask"] = Undefined
  /\ pc["runAiTask"] = "failed"

\* C5: configuration "k1,k2", active index 0: the request made with k1 is
\* answered "429 rate limit", the next one is made with k2 and, answered with
\* success, returns the result after exactly one rotation, k2 being active.
C5_TwoKeyScenario ==
  \A t \in Tasks :
    LET h == hist[t] IN
    (/\ API_KEY = ConfigOf(2)
     /\ Len(h) >= 1
     /\ h[1] = [key |-> Key(1), idx |-> 0, cls |-> "quota"]
     /\ lastError[t] = Msg429RateLimit) =>
      /\ Len(h) = 1 =>
           /\ outcome[t].kind = "none"
           /\ pc[t] = "awaiting" => clientKey[t] = Key(2)
      /\ (Len(h) = 2 /\ h[2].cls = "ok") =>
           /\ h[2].key = Key(2)
           /\ outcome[t].kind = "result"
           /\ rotations[t] = 1
           /\ activeKey(API_KEY, currentKeyIndex) = Key(2)

\* The scenario has run to its end.
C5_Witness ==
  /\ API_KEY = ConfigOf(2)
  /\ hist["runAiTask"] = <<[key |-> Key(1), idx |-> 0, cls |-> "quota"],
                           [key |-> Key(2), idx |-> 1, cls |-> "ok"]>>
  /\ lastError["runAiTask"] = Msg429RateLimit
  /\ pc["runAiTask"] = "returned"

\* C6: with a pool of one, rotateKey leaves the index and the credential as
\* they are, and a call that meets only quota-class errors fails after
\* exactly three requests, all made with that credential.
C6_PoolOfOne ==
  PoolSize = 1 =>
    /\ currentKeyIndex = 0
    /\ activeKey(API_KEY, currentKeyIndex) = getAvailableKeys(API_KEY)[1]
    /\ \A t \in Tasks :
         LET h == hist[t] IN
         /\ (AllQuota(h) /\ Len(h) < 3) => outcome[t].kind = "none"
         /\ (AllQuota(h) /\ outcome[t].kind = "error") =>
              /\ requests[t] = 3
              /\ Len(h) = 3
              /\ \A i \in 1..Len(h) : h[i].key = getAvailableKeys(API_KEY)[1]

\* Three "quota exceeded" answers on "k1": failed, two rotateKey calls made.
C6_Witness ==
  /\ API_KEY = ConfigOf(1)
  /\ AllQuota(hist["runAiTask"])
  /\ lastError["runAiTask"] = MsgQuotaExceeded
  /\ pc["runAiTask"] = "failed"
  /\ rotations["runAiTask"] = 2

\* C7: n consecutive rotateKey calls on a pool of n >= 1 bring the active
\* index (and so the credential) back to where it was; for n > 1 each call
\* moves the index to (index + 1) mod n.
C7_RotationCycle ==
  PoolSize >= 1 =>
    /\ Len(rotLog) = PoolSize + 1 =>
         /\ rotLog[PoolSize + 1] = rotLog[1]
         /\ activeKey(API_KEY, rotLog[PoolSize + 1]) = activeKey(API_KEY, rotLog[1])
    /\ \A i \in 1..(Len(rotLog) - 1) :
         rotLog[i + 1] = IF PoolSize > 1 THEN (rotLog[i] + 1) % PoolSize ELSE rotLog[i]
    /\ currentKeyIndex = rotLog[Len(rotLog)]

\* A full cycle on a pool of three that started from index 2.
C7_Witness ==
  /\ PoolSize = 3
  /\ Len(rotLog) = 4
  /\ rotLog[1] = 2
  /\ rotLog[4] = 2

\* C8: one call issues at most max(poolSize, 3) provider requests, the empty
\* pool included, whatever the provider answers.
C8_RequestBound ==
  \A t \in Tasks :
    /\ requests[t] <= Budget
    /\ PoolSize = 0 => requests[t] <= 3

\* The empty pool: the third request has been issued.
C8_Witness ==
  /\ PoolSize = 0
  /\ requests["runAiTask"] = 3
  /\ pc["runAiTask"] = "awaiting"

\* C9: for one opened live session, session establishment is attempted at
\* most three times, and an attempt that fails after two prior failed
\* attempts (connectionAttempts >= 2 in its closure) invokes onClose.
C9_AtMostThreeAttempts ==
  /\ Len(sessions) <= 3
  /\ \A a \in 1..Len(sessions) :
       (sessions[a].failed /\ sessions[a].c >= 2) => closeRequested

\* C10: once the live session is closed (the component is destroyed), and
\* for every run of startSession abandoned by a later one, every resource
\* acquired is released: the getUserMedia streams, both audio contexts, the
\* provider session.
C10_ResourcesReleased ==
  /\ (everMounted /\ ~mounted) =>
       /\ audioContextRef # "open"
       /\ outAudioContextRef # "open"
       /\ \A a \in 1..Len(sessions) :
            sessions[a].stream # "live" /\ sessions[a].ws \notin {"connecting", "open"}
  /\ \A a \in 1..(Len(sessions) - 1) :
       sessions[a].stream # "live" /\ sessions[a].ws \notin {"connecting", "open"}

\* The cleanup of the effect that started run a has run: a later run exists,
\* or the component is destroyed.
CleanedUp(a) == a < Len(sessions) \/ ~mounted

\* C11: when the cleanup has run while a run's session establishment was in
\* flight and the provider session then opens, that session is discarded: it
\* is closed, the component is not moved to Active and no capture is started.
C11_LateOpenDiscarded ==
  [][\A a \in 1..Len(sessions) :
       (CleanedUp(a) /\ sessions[a].ws = "connecting" /\ sessions'[a].opened) =>
         /\ sessions'[a].ws = "closed"
         /\ isActive' = isActive
         /\ ~sessions'[a].capture]_vars

\* The end of source i's playback interval.
EndOf(i) == sources[i].start + sources[i].duration
\* No interruption was handled between the arrivals of chunks i and j.
SameEpoch(i, j) == sources[i].epoch = sources[j].epoch
\* Chunk i is the first one scheduled since the session opened or since the
\* last interruption.
FirstOfEpoch(i) == i = 1 \/ ~SameEpoch(i - 1, i)

\* C12 as stated: of two chunks arriving consecutively with no interruption
\* between them, the second starts at the first one's start plus the first
\* one's duration, whatever the arrival times.
C12_AlwaysGapless ==
  \A i \in 1..(Len(sources) - 1) :
    SameEpoch(i, i + 1) => sources[i + 1].start = sources[i].start + sources[i].duration

\* C12 as amended: the second chunk starts at the first one's start plus its
\* duration when it arrives no later than that time, and at the clock's time
\* of its arrival when it arrives later.
C12_GaplessUnlessLate ==
  \A i \in 1..(Len(sources) - 1) :
    SameEpoch(i, i + 1) =>
      /\ sources[i + 1].arrival <= EndOf(i) => sources[i + 1].start = EndOf(i)
      /\ sources[i + 1].arrival > EndOf(i) => sources[i + 1].start = sources[i + 1].arrival

\* The second chunk arrived while the first was playing and waits for its end.
C12_Witness ==
  /\ Len(sources) >= 2
  /\ SameEpoch(1, 2)
  /\ sources[1].duration = 2
  /\ sources[2].arrival = sources[1].start + 1
  /\ sources[2].start = sources[1].start + 2

\* Every chunk starts at max(clock at its arrival, end of the chunk scheduled
\* before it); between interruptions the intervals do not overlap and follow
\* the arrival order, and the cursor is at or after every end.
ScheduleLaw ==
  /\ \A i \in 1..Len(sources) :
       LET prevEnd == IF FirstOfEpoch(i) THEN 0 ELSE EndOf(i - 1)
       IN  sources[i].start =
             IF prevEnd > sources[i].arrival THEN prevEnd ELSE sources[i].arrival
  /\ \A i, j \in 1..Len(sources) :
       (i < j /\ SameEpoch(i, j)) =>
         /\ sources[i].arrival <= sources[j].arrival
         /\ EndOf(i) <= sources[j].start
  /\ \A i \in 1..Len(sources) :
       sources[i].epoch = interruptions => EndOf(i) <= nextStartTimeRef

\* C13: every chunk starts at max(clock at its arrival, end of the chunk
\* scheduled before it); between interruptions the playback intervals do not
\* overlap and follow the arrival order, and the cursor never decreases.
C13_ScheduleLaw ==
  /\ []ScheduleLaw
  /\ [][interruptions' = interruptions => nextStartTimeRef' >= nextStartTimeRef]_vars

\* Three chunks without an interruption: the second back to back with the
\* first, the third after a gap.
C13_Witness ==
  /\ Len(sources) = 3
  /\ interruptions = 0
  /\ sources[2].start = EndOf(1)
  /\ sources[2].arrival < EndOf(1)
  /\ sources[3].start > EndOf(2)
  /\ nextStartTimeRef = EndOf(3)

\* C14: once an interruption has been handled no source scheduled before it
\* is still scheduled or held, the cursor is 0 until the next chunk arrives,
\* and that chunk starts at the clock's time of its arrival.
C14_InterruptionResets ==
  /\ \A i \in 1..Len(sources) :
       sources[i].epoch < interruptions =>
         (sources[i].state # "scheduled" /\ i \notin sourcesRef)
  /\ (interruptions > 0 /\ \A i \in 1..Len(sources) : sources[i].epoch < interruptions) =>
       (nextStartTimeRef = 0 /\ sourcesRef = {})
  /\ \A i \in 1..Len(sources) :
       (sources[i].epoch > 0 /\ FirstOfEpoch(i)) => sources[i].start = sources[i].arrival

\* A chunk was interrupted before its end, and the next chunk started at
\* once, before the time the stopped one would have ended.
C14_Witness ==
  /\ Len(sources) = 2
  /\ sources[1].state = "stopped"
  /\ sources[2].epoch = 1
  /\ sources[2].start = currentTime
  /\ sources[2].start < EndOf(1)
  /\ sources[2].start > 0

\* C15: the frames are passed to the session in exactly the order of their
\* capture, those captured before the promise of ai.live.connect is fulfilled
\* included: what has been sent is a prefix of what has been captured, each
\* frame once, and the frames still waiting are the rest, in order.
C15_SendOrder ==
  /\ Len(sent) <= Len(captured)
  /\ sent = SubSeq(captured, 1, Len(sent))
  /\ reactions = SubSeq(captured, Len(sent) + 1, Len(captured))

\* Two different frames captured before the promise was fulfilled have been
\* sent, a third one captured after it is waiting.
C15_Witness ==
  /\ Len(captured) = 3
  /\ captured[1] # captured[2]
  /\ sent = <<captured[1], captured[2]>>
  /\ sessions[1].phase = "established"
  /\ reactions = <<captured[3]>>

\* Call t has failed once, with a quota-class error on the credential of
\* index i, and has rotated.
FailedOnceOn(t, i) ==
  /\ Len(hist[t]) = 1
  /\ hist[t][1].cls = "quota"
  /\ hist[t][1].idx = i
  /\ rotations[t] = 1

\* C16: with a runAiTask call and a handleSend call in flight, every
\* rotation of either call moves the shared index one position on (mod the
\* pool size), so two calls that fail on the same credential and rotate once
\* each may both retry two positions later, skipping the credential in
\* between (the witness); in every interleaving the index stays inside the
\* pool, each call issues at most max(poolSize, 3) requests, and each request
\* is made with the credential of the index read when its client was built.
C16_ConcurrentRotation ==
  /\ currentKeyIndex >= 0
  /\ currentKeyIndex < (IF PoolSize > 1 THEN PoolSize ELSE 1)
  /\ \A t \in Tasks : requests[t] <= Budget /\ requests[t] <= Len(hist[t]) + 1
  /\ \A i \in 1..(Len(rotLog) - 1) :
       rotLog[i + 1] = IF PoolSize > 1 THEN (rotLog[i] + 1) % PoolSize ELSE rotLog[i]
  /\ currentKeyIndex = rotLog[Len(rotLog)]
  /\ \A t \in Tasks :
       pc[t] = "awaiting" => clientKey[t] = activeKey(API_KEY, clientIndex[t])

\* Pool of three: both calls failed on k1, rotated once each, and both retry
\* on k3; k2 has been skipped by both.
C16_Witness ==
  /\ API_KEY = ConfigOf(3)
  /\ \A t \in Tasks :
       /\ FailedOnceOn(t, 0)
       /\ hist[t][1].key = Key(1)
       /\ pc[t] = "awaiting"
       /\ requests[t] = 2
       /\ clientKey[t] = Key(3)

\* The generation parameters the specification's table gives for an action:
\* tier, temperature (tenths), reasoning budget set, web tool set.
TableOf(action) ==
  IF action \in {"fix", "think"}
    THEN [high |-> TRUE, temperature |-> 1, budget |-> TRUE, web |-> FALSE]
  ELSE IF action = "search"
    THEN [high |-> FALSE, temperature |-> 7, budget |-> FALSE, web |-> TRUE]
  ELSE [high |-> FALSE, temperature |-> 7, budget |-> FALSE, web |-> FALSE]

\* C17: the generation parameters of every request are those of the table
\* for its action tag, whatever the language, the credential and the attempt.
C17_ParametersByAction ==
  request # <<>> =>
    LET r == request[1]
        row == TableOf(reqAction)
    IN  /\ (r.model = "gemini-3-pro-preview") = row.high
        /\ r.model \in {"gemini-3-pro-preview", "gemini-3-flash-preview"}
        /\ r.temperature = row.temperature
        /\ (r.thinkingBudget # <<>>) = row.budget
        /\ (r.tools # <<>>) = row.web

\* A fix request in Bengali, on its second attempt, with the second credential.
C17_Witness ==
  /\ request # <<>>
  /\ reqAction = "fix"
  /\ reqLang = "bn"
  /\ reqAttempt = 1
  /\ request[1].credential = Key(2)
  /\ request[1].temperature = 1

\* The credential the specification gives for the active index idx: the
\* pool's entry at idx when the pool is not empty, else the raw configuration.
IsExpectedCredential(key, idx) ==
  IF PoolSize > 0
    THEN idx \in 0..(PoolSize - 1) /\ key = getAvailableKeys(API_KEY)[idx + 1]
    ELSE key = API_KEY

\* C18: the client of every attempt of performAITask and of every connection
\* attempt of the live session is built with pool[activeIndex] when the pool
\* is not empty and with the raw configuration value when it is empty.
C18_CredentialOfClient ==
  /\ \A t \in Tasks :
       /\ pc[t] = "awaiting" => IsExpectedCredential(clientKey[t], clientIndex[t])
       /\ \A i \in 1..Len(hist[t]) : IsExpectedCredential(hist[t][i].key, hist[t][i].idx)
  /\ \A a \in 1..Len(sessions) : IsExpectedCredential(sessions[a].key, sessions[a].idx)

\* Configuration " k1 ,,k2": the session's second connection attempt uses k2,
\* and the call's second attempt, after the index has wrapped, uses k1.
C18_Witness ==
  /\ API_KEY = <<" ","k","1"," ",",",",","k","2">>
  /\ Len(sessions) = 2
  /\ sessions[2].key = Key(2)
  /\ pc["runAiTask"] = "awaiting"
  /\ requests["runAiTask"] = 2
  /\ clientIndex["runAiTask"] = 0
  /\ clientKey["runAiTask"] = Key(1)

\* C19: a call that fails on a provider error, a non-quota error or a
\* quota-class error on the last allowed attempt, fails with the message of
\* that error when it is not empty, and with "Unable to complete request."
\* when the error has an empty message or none.
C19_MessagePreserved ==
  \A t \in Tasks :
    (outcome[t].kind = "error" /\ Len(hist[t]) >= 1) =>
      /\ hist[t][Len(hist[t])].cls # "ok"
      /\ outcome[t].message =
           IF lastError[t] = Undefined \/ lastError[t] = <<>>
             THEN DefaultMessage ELSE lastError[t]

\* A quota-class error with an upper-case message on the last allowed
\* attempt: the message is handed on as it was, not lower-cased.
C19_Witness ==
  /\ pc["runAiTask"] = "failed"
  /\ Len(hist["runAiTask"]) = Budget
  /\ AllQuota(hist["runAiTask"])
  /\ lastError["runAiTask"] = MsgQUOTA
  /\ outcome["runAiTask"].message = MsgQUOTA

\* The call has one outcome and it is whole: a result with its text and its
\* grounding, or a failure with its message and nothing of a result; no
\* outcome while it runs. runAiTask leaves the note alone after a failure.
OneOutcome ==
  /\ \A t \in Tasks :
       /\ pc[t] \in {"awaiting", "sleeping"} => outcome[t].kind = "none"
       /\ pc[t] = "returned" => outcome[t].kind = "result"
       /\ pc[t] = "failed" => outcome[t].kind = "error"
       /\ outcome[t].kind = "result" =>
            /\ outcome[t].text # Undefined
            /\ outcome[t].grounding # Undefined
            /\ outcome[t].message = <<>>
       /\ outcome[t].kind = "error" =>
            /\ outcome[t].text = <<>>
            /\ outcome[t].grounding = <<>>
            /\ outcome[t].message # <<>>
  /\ (pc["runAiTask"] = "idle" /\ outcome["runAiTask"].kind = "error") =>
       (~noteUpdated /\ apiError = outcome["runAiTask"].message)
  /\ (pc["runAiTask"] = "idle" /\ outcome["runAiTask"].kind = "result") =>
       (noteUpdated /\ apiError = <<>>)
  /\ pc["runAiTask"] \notin {"idle"} => ~noteUpdated

\* C20: if every provider request is answered, every performAITask call ends
\* with exactly one outcome, a whole result or a failure, and a failure
\* leaves the caller's note unchanged.
C20_TerminatesWithOneOutcome ==
  /\ []OneOutcome
  /\ (pc["runAiTask"] \in {"awaiting", "sleeping"})
       ~> (pc["runAiTask"] \in {"returned", "failed"})
  /\ (pc["runAiTask"] \in {"returned", "failed"}) ~> (pc["runAiTask"] = "idle")

\* A call answered with two quota-class errors and then a response that has
\* no text and no grounding has returned a whole result, and runAiTask has
\* updated the note.
C20_Witness ==
  /\ pc["runAiTask"] = "idle"
  /\ outcome["runAiTask"] = resultOf(Undefined, Undefined)
  /\ requests["runAiTask"] = 3
  /\ noteUpdated
  /\ currentKeyIndex = 1

\* The configuration as a string: unset reads as the empty string.
RawOf(apiKey) == IF apiKey = Undefined THEN <<>> ELSE apiKey
\* The positions of the commas of s, with 0 and Len(s) + 1 as the two ends.
Cuts(s) == {0, Len(s) + 1} \cup {i \in 1..Len(s) : s[i] = ","}
\* The k-th smallest element of the set of numbers S.
Nth(S, k) == CHOOSE x \in S : Cardinality({y \in S : y < x}) = k - 1
\* The j-th segment of s: what stands between the j-th and the next cut.
Segment(s, j) == SubSeq(s, Nth(Cuts(s), j) + 1, Nth(Cuts(s), j + 1) - 1)
\* A segment from its first to its last character that is not whitespace.
Stripped(seg) ==
  LET ink == {i \in 1..Len(seg) : seg[i] \notin {" ", "\t", "\n"}}
  IN  IF ink = {} THEN <<>>
      ELSE SubSeq(seg, Nth(ink, 1), Nth(ink, Cardinality(ink)))
\* The segments of s that are not empty once stripped, by number.
KeptSegments(s) ==
  {j \in 1..(Cardinality(Cuts(s)) - 1) : Stripped(Segment(s, j)) # <<>>}

\* C21: the pool is the sequence of the comma-separated segments of the
\* configuration, each stripped of surrounding whitespace, the empty ones
\* dropped, in their order and with their duplicates; a configuration of
\* commas and whitespace only gives the empty pool.
C21_PoolOfConfiguration ==
  keys # <<>> =>
    LET s    == RawOf(API_KEY)
        pool == keys[1]
        kept == KeptSegments(s)
    IN  /\ Len(pool) = Cardinality(kept)
        /\ \A k \in 1..Len(pool) : pool[k] = Stripped(Segment(s, Nth(kept, k)))
        /\ (\A i \in 1..Len(s) : s[i] \in {",", " ", "\t", "\n"}) => pool = <<>>

\* " a,a": the padded credential and its duplicate are both kept, in order.
C21_Witness ==
  /\ API_KEY = <<" ", "a", ",", "a">>
  /\ keys = << << <<"a">>, <<"a">> >> >>

\* The index rotateKey leaves, as the specification states it.
NextIndex(idx) == IF PoolSize > 1 THEN (idx + 1) % PoolSize ELSE idx

\* Between two requests of a call: one rotateKey call per failed request,
\* made before the wait, and the client in flight holds the credential of
\* the index read when it was built.
RotationsPerRequest ==
  \A t \in Tasks :
    /\ pc[t] = "sleeping" =>
         /\ rotations[t] = requests[t]
         /\ Len(hist[t]) = requests[t]
         /\ hist[t][Len(hist[t])].cls = "quota"
    /\ pc[t] = "awaiting" =>
         /\ rotations[t] = requests[t] - 1
         /\ Len(hist[t]) = requests[t] - 1
         /\ AllQuota(hist[t])
         /\ IsExpectedCredential(clientKey[t], clientIndex[t])

\* C22: within one call every request after the first follows the previous
\* request's quota-class failure by exactly one rotateKey call and then one
\* wait, in that order: the wait is entered from the failed request by the
\* step that rotates, it is left by the step that issues the next request,
\* and that request's client is built from the credential active when the
\* wait ends, not from what the rotation returned.
C22_RotateWaitRetry ==
  /\ []RotationsPerRequest
  /\ [][\A t \in Tasks :
         (pc[t] # "sleeping" /\ pc'[t] = "sleeping") =>
           /\ pc[t] = "awaiting"
           /\ rotations'[t] = rotations[t] + 1
           /\ requests'[t] = requests[t]
           /\ currentKeyIndex' = NextIndex(currentKeyIndex)]_vars
  /\ [][\A t \in Tasks :
         (requests[t] >= 1 /\ requests'[t] = requests[t] + 1) =>
           /\ pc[t] = "sleeping" /\ pc'[t] = "awaiting"
           /\ rotations'[t] = rotations[t]
           /\ currentKeyIndex' = currentKeyIndex
           /\ clientIndex'[t] = currentKeyIndex
           /\ IsExpectedCredential(clientKey'[t], currentKeyIndex)]_vars

\* The second request of runAiTask is in flight on a credential that is not
\* the one its rotation returned: handleSend rotated during the wait.
C22_Witness ==
  /\ pc["runAiTask"] = "awaiting"
  /\ requests["runAiTask"] = 2
  /\ rotations["runAiTask"] = 1
  /\ returnedKey["runAiTask"] = Key(2)
  /\ clientKey["runAiTask"] = Key(3)

\* C23: a call that gives up after max(poolSize, 3) quota-class failures has
\* made one rotateKey call fewer than that: the failure on the last allowed
\* attempt does not rotate, and the active credential is then the one the
\* last failed attempt was made with.
C23_NoRotationOnLastAttempt ==
  \A t \in Tasks :
    LET h == hist[t] IN
    (AllQuota(h) /\ Len(h) = Budget /\ pc[t] \in {"failed", "idle"}) =>
      /\ maxAttempts[t] = Budget
      /\ attempts[t] = maxAttempts[t] - 1
      /\ rotations[t] = maxAttempts[t] - 1
      /\ requests[t] = maxAttempts[t]
      /\ currentKeyIndex = h[Len(h)].idx
      /\ PoolSize > 0 => getAvailableKeys(API_KEY)[currentKeyIndex + 1] = h[Len(h)].key

\* A pool of four, from index 0: four quota-class failures, three rotations,
\* and k4, the credential of the fourth attempt, stays active.
C23_Witness ==
  /\ PoolSize = 4
  /\ pc["runAiTask"] = "failed"
  /\ AllQuota(hist["runAiTask"])
  /\ Len(hist["runAiTask"]) = 4
  /\ hist["runAiTask"][1].idx = 0
  /\ rotations["runAiTask"] = 3
  /\ currentKeyIndex = 3
  /\ hist["runAiTask"][4].key = Key(4)

\* This step reports a failure of run a to one of its handlers: onerror
\* (the socket closes) or the catch block (the run is caught).
ReportsFailure(a) ==
  /\ Len(sessions') = Len(sessions)
  /\ mounted' = mounted
  /\ sessions'[a].failed
  /\ \/ sessions'[a].phase = "caught" /\ sessions[a].phase # "caught"
     \/ sessions'[a].ws = "closed" /\ sessions[a].ws # "closed"

\* C24: a failed connection attempt made with fewer than 2 prior attempts
\* rotates once and increases connectionAttempts by one, whatever failed,
\* and a second report of the same failure (onerror and the rejected
\* promise) does neither again.
C24_OneRetryPerFailedAttempt ==
  [][\A a \in 1..Len(sessions) :
       (/\ mounted /\ ~closeRequested
        /\ sessions[a].c < 2
        /\ sessions[a].ws # "open"
        /\ ReportsFailure(a)) =>
         IF sessions[a].failed
           THEN /\ connectionAttempts' = connectionAttempts
                /\ currentKeyIndex' = currentKeyIndex
                /\ closeRequested' = closeRequested
           ELSE /\ connectionAttempts' = connectionAttempts + 1
                /\ currentKeyIndex' = NextIndex(currentKeyIndex)
                /\ closeRequested' = closeRequested]_vars

\* C25: a provider error on a session that has become Active (its onopen has
\* run and its socket is open) does not rotate and does not count a new
\* connection attempt: it ends the session and invokes onClose.
C25_ActiveErrorCloses ==
  [][\A a \in 1..Len(sessions) :
       (/\ mounted
        /\ sessions[a].opened /\ sessions[a].ws = "open"
        /\ ~sessions[a].failed
        /\ ReportsFailure(a)) =>
         /\ closeRequested'
         /\ connectionAttempts' = connectionAttempts
         /\ currentKeyIndex' = currentKeyIndex]_vars

\* C26: once the provider has closed the session the component is showing
\* as Active, and the close event has been handled, onClose has been
\* invoked: the component does not stay Active on a closed session.
C26_ProviderCloseSurfaced ==
  \A a \in 1..Len(sessions) :
    (/\ mounted /\ isActive
     /\ a = Len(sessions)
     /\ sessions[a].opened /\ sessions[a].ws = "closed"
     /\ ~sessions[a].failed
     /\ ~sessions[a].closeEvt) => closeRequested

\* C27: while the session of the latest run of startSession is Active, the
\* one of a retry included, the 16 kHz and the 24 kHz context are open.
C27_ContextsOpenWhenActive ==
  \A a \in 1..Len(sessions) :
    (/\ mounted /\ isActive
     /\ a = Len(sessions)
     /\ sessions[a].opened /\ sessions[a].ws = "open") =>
      (audioContextRef = "open" /\ outAudioContextRef = "open")

\* This step makes a call of rotateKey: in the catch block of a
\* performAITask call, or in onerror or the catch block of startSession.
CallsRotateKey ==
  \/ \E t \in Tasks : rotations'[t] = rotations[t] + 1
  \/ \E a \in 1..Len(sessions) : ReportsFailure(a) /\ closeRequested' = closeRequested

\* C28: in every state, however the calls of both callers and the
\* connection retries interleave, the active index is an integer with
\* 0 <= index < max(1, poolSize); it is 0 until the first rotateKey call and
\* no step but a rotateKey call changes it.
C28_IndexInRange ==
  /\ [](/\ currentKeyIndex \in Nat
        /\ currentKeyIndex < (IF PoolSize > 1 THEN PoolSize ELSE 1)
        /\ Len(rotLog) = 1 => currentKeyIndex = 0)
  /\ [][currentKeyIndex' # currentKeyIndex =>
          (CallsRotateKey /\ currentKeyIndex' = NextIndex(currentKeyIndex))]_vars

\* Pool of two: runAiTask, handleSend and the live session have rotated once
\* each, the index has wrapped to 0 and moved on to 1, and all three wait to
\* retry.
C28_Witness ==
  /\ PoolSize = 2
  /\ rotations["runAiTask"] = 1 /\ pc["runAiTask"] = "sleeping"
  /\ rotations["handleSend"] = 1 /\ pc["handleSend"] = "sleeping"
  /\ connectionAttempts = 1
  /\ Len(sessions) = 2 /\ sessions[2].phase = "gum"
  /\ rotLog = <<1, 0, 1>>
  /\ currentKeyIndex = 1

\* The credential at position i (0-based) of the pool.
PoolAt(i) == getAvailableKeys(API_KEY)[i + 1]

\* C29: with one call running and no other rotation in flight, attempt j
\* (j = 0, 1, ...) is made with pool[(i0 + j) mod poolSize], i0 being the
\* active index when the call started; so with a pool of three or more a
\* call that has used its whole budget has tried every position of the pool
\* exactly once.
C29_AttemptCredential ==
  \A t \in Tasks :
    LET h == hist[t] IN
    PoolSize >= 1 =>
      /\ \A j \in 1..Len(h) :
           /\ h[j].idx = (h[1].idx + (j - 1)) % PoolSize
           /\ h[j].key = PoolAt((h[1].idx + (j - 1)) % PoolSize)
      /\ (pc[t] = "awaiting" /\ Len(h) >= 1) =>
           /\ clientIndex[t] = (h[1].idx + Len(h)) % PoolSize
           /\ clientKey[t] = PoolAt((h[1].idx + Len(h)) % PoolSize)
      /\ (PoolSize >= 3 /\ Len(h) = Budget) =>
           /\ {h[j].idx : j \in 1..Len(h)} = 0..(PoolSize - 1)
           /\ \A i, j \in 1..Len(h) : i # j => h[i].idx # h[j].idx

\* A pool of four and a call started on index 2: its four attempts were
\* made with k3, k4, k1, k2.
C29_Witness ==
  /\ PoolSize = 4
  /\ Len(hist["runAiTask"]) = 4
  /\ hist["runAiTask"][1].idx = 2
  /\ hist["runAiTask"][1].key = Key(3)
  /\ hist["runAiTask"][2].key = Key(4)
  /\ hist["runAiTask"][3].key = Key(1)
  /\ hist["runAiTask"][4].key = Key(2)

\* C30: the step in which an attempt succeeds or fails with an error that is
\* not quota-class leaves the active index as it is, and so do the return to
\* the caller and the start of the next call: that call's first client is
\* built on the index, and with the credential, the previous call ended on.
C30_IndexKeptBetweenCalls ==
  [][\A t \in Tasks :
       /\ (/\ Len(hist'[t]) = Len(hist[t]) + 1
           /\ hist'[t][Len(hist'[t])].cls \in {"ok", "other"}) =>
            /\ currentKeyIndex' = currentKeyIndex
            /\ currentKeyIndex = hist'[t][Len(hist'[t])].idx
       /\ (pc[t] \in {"returned", "failed"} /\ pc'[t] = "idle") =>
            currentKeyIndex' = currentKeyIndex
       /\ (pc[t] = "idle" /\ pc'[t] = "awaiting") =>
            /\ currentKeyIndex' = currentKeyIndex
            /\ clientIndex'[t] = currentKeyIndex
            /\ Len(hist[t]) >= 1 =>
                 /\ clientIndex'[t] = hist[t][Len(hist[t])].idx
                 /\ clientKey'[t] = hist[t][Len(hist[t])].key]_vars

\* Pool of two: an earlier call ended on index 1 (the index starts at 0),
\* and the first request of the next call is in flight on k2.
C30_Witness ==
  /\ PoolSize = 2
  /\ pc["runAiTask"] = "awaiting"
  /\ hist["runAiTask"] = <<>>
  /\ requests["runAiTask"] = 1
  /\ lastError["runAiTask"] = Undefined
  /\ currentKeyIndex = 1
  /\ clientIndex["runAiTask"] = 1
  /\ clientKey["runAiTask"] = Key(2)

\* C31: a frame is passed to session.sendRealtimeInput only while the
\* session it goes to has opened and has not been closed.
C31_ForwardOnlyWhileOpen ==
  [][sent' # sent =>
       \E a \in 1..Len(sessions) :
         /\ sessions[a].capture
         /\ sessions[a].opened
         /\ sessions[a].ws = "open"]_vars

====
